---- MODULE Spec2Model ----
(***************************************************************************)
(* Stock aggregation service (src/stock/index.js): a cache-aside fetch     *)
(* layer over an upstream price feed, nearest-timestamp alignment of two   *)
(* price histories, Pearson correlation, and the two HTTP handlers.        *)
(*                                                                         *)
(* Time is in milliseconds, as Date.now() gives it.  Strings that the code *)
(* parses or concatenates (the minutes parameter, the ticker, the cache    *)
(* key) are sequences of one-character strings.  Numbers that the code     *)
(* computes by division are exact rationals [num, den] in the server and   *)
(* in the alignment harness, whose prices are small integers, and IEEE-754 *)
(* doubles in the correlation harness, whose prices are decimal fractions. *)
(***************************************************************************)
EXTENDS Integers, Sequences, FiniteSets, TLC

VARIABLES
    now,          \* the clock, Date.now()
    ticks,        \* number of advances of the clock so far
    cache,        \* NodeCache data: key -> [v: stored value, t: expiry instant]
    reqs,         \* the requests in flight: id -> request, with its fetch calls
    received,     \* number of requests received so far
    last,         \* the response sent last, with the request it answers
    h1, h2,       \* inputs of the alignment harness: two price histories
    mins,         \* input of the alignment harness: the minutes argument
    runs,         \* results of the alignment harness' invocations
    series1,      \* inputs of the correlation harness: two price series
    series2,
    coef          \* results of the correlation harness' invocations

vars == <<now, ticks, cache, reqs, received, last, h1, h2, mins, runs,
          series1, series2, coef>>
serverVars == <<cache, reqs, received, last>>
harnessVars == <<h1, h2, mins, runs, series1, series2, coef>>

----
\* Bounds of the model

MaxRequests == 2      \* requests received in one behaviour
MaxTicks == 1         \* advances of the server's clock in one behaviour
MaxLen == 2           \* points in a history of the alignment harness
MaxPrice == 2         \* prices 1..MaxPrice in the alignment harness
MaxSlot == 2          \* timestamps at minutes 0..MaxSlot in the alignment harness
MaxClock == 4         \* the harness' clock runs up to this many minutes
MaxRuns == 2          \* invocations of align + correlate in the harness
MaxSeries == 3        \* prices in a series of the correlation harness

\* Program constants

stdTTL == 300
checkperiod == 60
MsPerSecond == 1000
SecPerMinute == 60

\* The Number type: 53 significant bits; the model holds them in limbs of 14 bits.
Precision == 53
LimbBits == 14

----
\* Numbers

Abs(x) == IF x < 0 THEN -x ELSE x

RECURSIVE Gcd(_, _)
Gcd(a, b) == IF b = 0 THEN a ELSE Gcd(b, a % b)

\* An exact quotient num / den (den # 0), in lowest terms with den > 0.
Quot(num, den) ==
    LET g == Gcd(Abs(num), Abs(den))
        s == IF den < 0 THEN -1 ELSE 1
    IN  [num |-> s * (num \div g), den |-> s * (den \div g)]

Zero == [num |-> 0, den |-> 1]
RInt(n) == [num |-> n, den |-> 1]
RAdd(a, b) == Quot(a.num * b.den + b.num * a.den, a.den * b.den)
RSub(a, b) == Quot(a.num * b.den - b.num * a.den, a.den * b.den)
RMul(a, b) == Quot(a.num * b.num, a.den * b.den)
RDiv(a, b) == Quot(a.num * b.den, a.den * b.num)

RECURSIVE SumPrices(_)
SumPrices(s) == IF s = <<>> THEN 0 ELSE Head(s) + SumPrices(Tail(s))

----
\* IEEE-754 double arithmetic (the Number type of the prices and of everything
\* calculateCorrelation computes).  A finite double is +-m * 2^e with m = 0 or
\* 2^52 <= m < 2^53; every operation is the exact result rounded to nearest, ties
\* to even.  Exponents are not bounded: the magnitudes met here stay far from
\* overflow and underflow.  A significand is a natural number in limbs of
\* LimbBits bits, least significant first, without leading zero limbs.

Base == 2 ^ LimbBits

Max(a, b) == IF a >= b THEN a ELSE b
Limb(a, i) == IF i >= 1 /\ i <= Len(a) THEN a[i] ELSE 0

RECURSIVE BNorm(_)
BNorm(a) ==
    IF a # <<>> /\ a[Len(a)] = 0 THEN BNorm(SubSeq(a, 1, Len(a) - 1)) ELSE a

RECURSIVE BFromInt(_)
BFromInt(n) == IF n = 0 THEN <<>> ELSE <<n % Base>> \o BFromInt(n \div Base)

RECURSIVE BCmpFrom(_, _, _)
BCmpFrom(a, b, i) ==
    IF i = 0 THEN 0
    ELSE IF Limb(a, i) < Limb(b, i) THEN -1
    ELSE IF Limb(a, i) > Limb(b, i) THEN 1
    ELSE BCmpFrom(a, b, i - 1)

BCmp(a, b) == BCmpFrom(a, b, Max(Len(a), Len(b)))

RECURSIVE BAddFrom(_, _, _, _)
BAddFrom(a, b, i, carry) ==
    IF i > Max(Len(a), Len(b))
    THEN IF carry = 0 THEN <<>> ELSE <<carry>>
    ELSE LET s == Limb(a, i) + Limb(b, i) + carry
         IN  <<s % Base>> \o BAddFrom(a, b, i + 1, s \div Base)

BAdd(a, b) == BAddFrom(a, b, 1, 0)

\* a - b for a >= b
RECURSIVE BSubFrom(_, _, _, _)
BSubFrom(a, b, i, borrow) ==
    IF i > Len(a) THEN <<>>
    ELSE LET d == Limb(a, i) - Limb(b, i) - borrow
         IN  <<d % Base>> \o BSubFrom(a, b, i + 1, IF d < 0 THEN 1 ELSE 0)

BSub(a, b) == BNorm(BSubFrom(a, b, 1, 0))

RECURSIVE BColumn(_, _, _, _)
BColumn(a, b, k, i) ==
    IF i > Len(a) THEN 0 ELSE a[i] * Limb(b, k + 1 - i) + BColumn(a, b, k, i + 1)

RECURSIVE BMulFrom(_, _, _, _)
BMulFrom(a, b, k, carry) ==
    IF k > Len(a) + Len(b) THEN <<>>
    ELSE LET s == BColumn(a, b, k, 1) + carry
         IN  <<s % Base>> \o BMulFrom(a, b, k + 1, s \div Base)

BMul(a, b) == BNorm(BMulFrom(a, b, 1, 0))

\* a * c for a small natural c
BScale(a, c) == BMul(a, BFromInt(c))

\* a * 2^k
BShl(a, k) ==
    IF a = <<>> THEN <<>>
    ELSE [i \in 1..(k \div LimbBits) |-> 0] \o BScale(a, 2 ^ (k % LimbBits))

\* floor(a / 2^k)
BShr(a, k) ==
    LET q == k \div LimbBits
        r == k % LimbBits
        d == IF q >= Len(a) THEN <<>> ELSE SubSeq(a, q + 1, Len(a))
    IN  BNorm([i \in 1..Len(d) |->
                  (d[i] \div 2 ^ r) + (Limb(d, i + 1) % 2 ^ r) * 2 ^ (LimbBits - r)])

RECURSIVE IntBitLen(_)
IntBitLen(n) == IF n = 0 THEN 0 ELSE 1 + IntBitLen(n \div 2)

BitLen(a) == IF a = <<>> THEN 0 ELSE LimbBits * (Len(a) - 1) + IntBitLen(a[Len(a)])

\* bit i of a, bit 0 being the least significant
Bit(a, i) == (Limb(a, i \div LimbBits + 1) \div 2 ^ (i % LimbBits)) % 2

\* the low k bits of a are all zero
LowZero(a, k) == BShl(BShr(a, k), k) = a

Fl(neg, m, e) == [neg |-> neg, m |-> m, e |-> e]
ZeroF == Fl(FALSE, <<>>, 0)
IsZeroF(x) == x.m = <<>>

\* The double nearest to +-(m * 2^e + a positive fraction of 2^e if sticky);
\* sticky is set only for m of more than Precision bits.
RoundF(neg, m, e, sticky) ==
    LET len == BitLen(m)
    IN  IF m = <<>> THEN ZeroF
        ELSE IF len <= Precision THEN Fl(neg, BShl(m, Precision - len), e - (Precision - len))
        ELSE LET sh == len - Precision
                 q == BShr(m, sh)
                 half == Bit(m, sh - 1) = 1
                 rest == sticky \/ ~LowZero(m, sh - 1)
                 up == half /\ (rest \/ q[1] % 2 = 1)
                 q1 == IF up THEN BAdd(q, <<1>>) ELSE q
             IN  IF BitLen(q1) > Precision
                 THEN Fl(neg, BShr(q1, 1), e + sh + 1)
                 ELSE Fl(neg, q1, e + sh)

\* The double of an integer
IntF(n) == RoundF(n < 0, BFromInt(IF n < 0 THEN -n ELSE n), 0, FALSE)

NegF(x) == IF x.m = <<>> THEN x ELSE [x EXCEPT !.neg = ~x.neg]

\* x + y
AddF(x, y) ==
    IF x.m = <<>> THEN y
    ELSE IF y.m = <<>> THEN x
    ELSE LET e == IF x.e < y.e THEN x.e ELSE y.e
             mx == BShl(x.m, x.e - e)
             my == BShl(y.m, y.e - e)
             c == BCmp(mx, my)
         IN  IF x.neg = y.neg THEN RoundF(x.neg, BAdd(mx, my), e, FALSE)
             ELSE IF c = 0 THEN ZeroF
             ELSE IF c > 0 THEN RoundF(x.neg, BSub(mx, my), e, FALSE)
             ELSE RoundF(y.neg, BSub(my, mx), e, FALSE)

\* x - y
SubF(x, y) == AddF(x, NegF(y))

\* x * y
MulF(x, y) ==
    IF x.m = <<>> \/ y.m = <<>> THEN ZeroF
    ELSE RoundF(x.neg # y.neg, BMul(x.m, y.m), x.e + y.e, FALSE)

\* One more quotient bit of r / b, for r < b: <<quotient, remainder>>
DivStep(q, r, b) ==
    LET r2 == BAdd(r, r)
        q2 == BAdd(q, q)
    IN  IF BCmp(r2, b) >= 0 THEN <<BAdd(q2, <<1>>), BSub(r2, b)>> ELSE <<q2, r2>>

\* k further quotient bits: the first half of them, and the rest unless the
\* division has come out even
RECURSIVE DivBits(_, _, _)
DivBits(qr, b, k) ==
    IF k = 0 THEN qr
    ELSE IF k = 1 THEN DivStep(qr[1], qr[2], b)
    ELSE LET half == DivBits(qr, b, k \div 2)
         IN  IF half[2] = <<>> THEN <<BShl(half[1], k - k \div 2), <<>>>>
             ELSE DivBits(half, b, k - k \div 2)

\* x / y for y # 0
DivF(x, y) ==
    IF x.m = <<>> THEN ZeroF
    ELSE LET first == BCmp(x.m, y.m) >= 0
             r0 == IF first THEN BSub(x.m, y.m) ELSE x.m
             qr == DivBits(<<IF first THEN <<1>> ELSE <<>>, r0>>, y.m, Precision + 3)
         IN  RoundF(x.neg # y.neg, qr[1], x.e - y.e - (Precision + 3), qr[2] # <<>>)

\* One more bit of floor(sqrt(n)): bit k, s being the bits found above it
SqrtStep(n, s, k) ==
    LET t == BAdd(s, BShl(<<1>>, k))
    IN  IF BCmp(BMul(t, t), n) <= 0 THEN t ELSE s

\* The bits of floor(sqrt(n)) from bit hi down to bit lo: the upper half of
\* them, and the rest unless the root has come out exact
RECURSIVE SqrtBits(_, _, _, _)
SqrtBits(n, s, hi, lo) ==
    IF hi < lo THEN s
    ELSE IF hi = lo THEN SqrtStep(n, s, hi)
    ELSE LET mid == (hi + lo + 1) \div 2
             upper == SqrtBits(n, s, hi, mid)
         IN  IF BMul(upper, upper) = n THEN upper
             ELSE SqrtBits(n, upper, mid - 1, lo)

\* Math.sqrt(x) for x >= 0
SqrtF(x) ==
    IF x.m = <<>> THEN ZeroF
    ELSE LET k == IF (x.e - (Precision + 4)) % 2 = 0 THEN Precision + 4 ELSE Precision + 5
             n == BShl(x.m, k)
             s == SqrtBits(n, <<>>, Precision + 4, 0)
         IN  RoundF(FALSE, s, (x.e - k) \div 2, BMul(s, s) # n)

\* The double a decimal literal num/den denotes (JSON.parse)
DecF(num, den) == DivF(IntF(num), IntF(den))

----
\* JavaScript coercions of the query parameters

Undefined == [type |-> "undefined"]
Str(s) == [type |-> "string", s |-> s]
Arr(a) == [type |-> "array", a |-> a]

Digits == <<"0", "1", "2", "3", "4", "5", "6", "7", "8", "9">>
IsDigit(c) == \E i \in 1..Len(Digits) : Digits[i] = c
DigitVal(c) == (CHOOSE i \in 1..Len(Digits) : Digits[i] = c) - 1

RECURSIVE DecVal(_, _)
DecVal(s, acc) ==
    IF s = <<>> THEN acc ELSE DecVal(Tail(s), acc * 10 + DigitVal(Head(s)))

NaN == [nan |-> TRUE, v |-> 0]
Num(n) == [nan |-> FALSE, v |-> n]

\* ToNumber of a string: the empty string is 0, an optionally signed run of
\* decimal digits is its value, anything else is NaN.
StrToNumber(s) ==
    LET body == IF s # <<>> /\ Head(s) = "-" THEN Tail(s) ELSE s
        neg == s # <<>> /\ Head(s) = "-"
    IN  IF s = <<>> THEN Num(0)
        ELSE IF body # <<>> /\ \A i \in 1..Len(body) : IsDigit(body[i])
             THEN Num(IF neg THEN -DecVal(body, 0) ELSE DecVal(body, 0))
             ELSE NaN

ToNumber(x) == IF x.type = "string" THEN StrToNumber(x.s) ELSE NaN

\* !x
Falsy(x) == x.type = "undefined" \/ (x.type = "string" /\ x.s = <<>>)

\* Variant: the range test minutes <= 0 is left out.
InvalidMinutesNoRange(minutes) ==
    \/ Falsy(minutes)
    \/ ToNumber(minutes).nan

\* !minutes || isNaN(minutes) || minutes <= 0
InvalidMinutes(minutes) ==
    \/ Falsy(minutes)
    \/ ToNumber(minutes).nan
    \/ ToNumber(minutes).v <= 0

\* !ticker || !Array.isArray(ticker) || ticker.length !== 2
InvalidTickers(ticker) ==
    \/ Falsy(ticker)
    \/ ticker.type # "array"
    \/ Len(ticker.a) # 2

----
\* Price points and histories

\* lastUpdatedAt as new Date() reads it: an instant in ms, or an invalid date.
At(ms) == [valid |-> TRUE, ms |-> ms]
InvalidDate == [valid |-> FALSE, ms |-> 0]
Point(p, ts) == [price |-> p, lastUpdatedAt |-> ts]

\* new Date(x).getTime()
GetTime(x) == IF x.valid THEN Num(x.ms) ELSE NaN

Prices(history) == [i \in 1..Len(history) |-> history[i].price]

\* calculateAveragePrice: 0 for an empty history, else sum / length.
calculateAveragePrice(priceHistory) ==
    IF Len(priceHistory) = 0 THEN Zero
    ELSE Quot(SumPrices(Prices(priceHistory)), Len(priceHistory))

----
\* alignPriceHistories

\* Variant: the factor 1000 is left out, so the window is in seconds.
WindowSeconds(minutes) == ToNumber(minutes).v * SecPerMinute

\* minutes * 60 * 1000
WindowMs(minutes) == ToNumber(minutes).v * SecPerMinute * MsPerSecond

\* Variant: the lower bound is exclusive.
InFilterExclusive(entry, startTime, endTime) ==
    LET entryTime == GetTime(entry.lastUpdatedAt)
    IN  /\ ~entryTime.nan
        /\ entryTime.v > startTime
        /\ entryTime.v <= endTime

\* entryTime >= startTime && entryTime <= endTime (false for an invalid date)
InFilter(entry, startTime, endTime) ==
    LET entryTime == GetTime(entry.lastUpdatedAt)
    IN  /\ ~entryTime.nan
        /\ entryTime.v >= startTime
        /\ entryTime.v <= endTime

filterByTime(history, startTime, endTime) ==
    SelectSeq(history, LAMBDA entry : InFilter(entry, startTime, endTime))

Infinity == [inf |-> TRUE, v |-> 0]
Finite(n) == [inf |-> FALSE, v |-> n]

\* Variant: diff <= minDiff, so that the last of several nearest points wins.
NewMinOrEqual(diff, minDiff) == minDiff.inf \/ diff <= minDiff.v

\* diff < minDiff
NewMin(diff, minDiff) == minDiff.inf \/ diff < minDiff.v

\* The inner loop over filtered2 from index i on: closest is <<>> (null) or
\* <<entry2>>, minDiff the least difference seen so far.
RECURSIVE ScanClosest(_, _, _, _, _)
ScanClosest(time1, filtered2, i, closest, minDiff) ==
    IF i > Len(filtered2) THEN closest
    ELSE LET entry2 == filtered2[i]
             time2 == GetTime(entry2.lastUpdatedAt).v
             diff == Abs(time1 - time2)
         IN  IF NewMin(diff, minDiff)
             THEN ScanClosest(time1, filtered2, i + 1, <<entry2>>, Finite(diff))
             ELSE ScanClosest(time1, filtered2, i + 1, closest, minDiff)

\* Variant: the price of entry1 is pushed whether or not a closest entry exists.
RECURSIVE AlignLoopAlwaysPush(_, _, _, _, _)
AlignLoopAlwaysPush(filtered1, filtered2, i, aligned1, aligned2) ==
    IF i > Len(filtered1) THEN <<aligned1, aligned2>>
    ELSE LET entry1 == filtered1[i]
             time1 == GetTime(entry1.lastUpdatedAt).v
             closest == ScanClosest(time1, filtered2, 1, <<>>, Infinity)
         IN  AlignLoopAlwaysPush(filtered1, filtered2, i + 1,
                 Append(aligned1, entry1.price),
                 IF closest # <<>> THEN Append(aligned2, closest[1].price) ELSE aligned2)

\* The outer loop over filtered1 from index i on, pushing onto aligned1, aligned2.
RECURSIVE AlignLoop(_, _, _, _, _)
AlignLoop(filtered1, filtered2, i, aligned1, aligned2) ==
    IF i > Len(filtered1) THEN <<aligned1, aligned2>>
    ELSE LET entry1 == filtered1[i]
             time1 == GetTime(entry1.lastUpdatedAt).v
             closest == ScanClosest(time1, filtered2, 1, <<>>, Infinity)
         IN  IF closest # <<>>
             THEN AlignLoop(filtered1, filtered2, i + 1,
                            Append(aligned1, entry1.price),
                            Append(aligned2, closest[1].price))
             ELSE AlignLoop(filtered1, filtered2, i + 1, aligned1, aligned2)

\* clock is the value of new Date() at the call.
alignPriceHistories(history1, history2, minutes, clock) ==
    LET endTime == clock
        startTime == endTime - WindowMs(minutes)
        filtered1 == filterByTime(history1, startTime, endTime)
        filtered2 == filterByTime(history2, startTime, endTime)
    IN  AlignLoop(filtered1, filtered2, 1, <<>>, <<>>)

----
\* calculateCorrelation

\* A coefficient cov / (stdDev1 * stdDev2) is held exactly as its sign and its
\* square cov^2 / (var1 * var2); 0 is [sign 0, square 0].
CorrZero == [sign |-> 0, sq |-> Zero]
Sign(r) == IF r.num > 0 THEN 1 ELSE IF r.num < 0 THEN -1 ELSE 0

\* The loop over i < n, accumulating cov, stdDev1, stdDev2.
RECURSIVE CorrLoop(_, _, _, _, _, _, _, _)
CorrLoop(prices1, prices2, mean1, mean2, i, cov, stdDev1, stdDev2) ==
    IF i > Len(prices1) THEN <<cov, stdDev1, stdDev2>>
    ELSE LET diff1 == RSub(RInt(prices1[i]), mean1)
             diff2 == RSub(RInt(prices2[i]), mean2)
         IN  CorrLoop(prices1, prices2, mean1, mean2, i + 1,
                      RAdd(cov, RMul(diff1, diff2)),
                      RAdd(stdDev1, RMul(diff1, diff1)),
                      RAdd(stdDev2, RMul(diff2, diff2)))

\* Variant: the covariance is divided by n, the two variances by n - 1.
calculateCorrelationMixedDivisors(prices1, prices2) ==
    IF Len(prices1) < 2 \/ Len(prices2) < 2 THEN CorrZero
    ELSE LET n == Len(prices1)
             mean1 == Quot(SumPrices(prices1), n)
             mean2 == Quot(SumPrices(prices2), n)
             acc == CorrLoop(prices1, prices2, mean1, mean2, 1, Zero, Zero, Zero)
             cov == RDiv(acc[1], RInt(n))
             var1 == RDiv(acc[2], RInt(n - 1))
             var2 == RDiv(acc[3], RInt(n - 1))
         IN  IF var1.num = 0 \/ var2.num = 0 THEN CorrZero
             ELSE [sign |-> Sign(cov),
                   sq |-> RDiv(RMul(cov, cov), RMul(var1, var2))]

\* Defined for series of equal length, which is what the handler passes.
calculateCorrelation(prices1, prices2) ==
    IF Len(prices1) < 2 \/ Len(prices2) < 2 THEN CorrZero
    ELSE LET n == Len(prices1)
             mean1 == Quot(SumPrices(prices1), n)
             mean2 == Quot(SumPrices(prices2), n)
             acc == CorrLoop(prices1, prices2, mean1, mean2, 1, Zero, Zero, Zero)
             cov == RDiv(acc[1], RInt(n - 1))
             var1 == RDiv(acc[2], RInt(n - 1))
             var2 == RDiv(acc[3], RInt(n - 1))
         IN  IF var1.num = 0 \/ var2.num = 0 THEN CorrZero
             ELSE [sign |-> Sign(cov),
                   sq |-> RDiv(RMul(cov, cov), RMul(var1, var2))]

\* reduce((sum, x) => sum + x, 0) in double arithmetic, from index i on
RECURSIVE SumDouble(_, _, _)
SumDouble(prices, i, sum) ==
    IF i > Len(prices) THEN sum ELSE SumDouble(prices, i + 1, AddF(sum, prices[i]))

\* The loop over i < n in double arithmetic
RECURSIVE CorrLoopDouble(_, _, _, _, _, _, _, _)
CorrLoopDouble(prices1, prices2, mean1, mean2, i, cov, stdDev1, stdDev2) ==
    IF i > Len(prices1) THEN <<cov, stdDev1, stdDev2>>
    ELSE LET diff1 == SubF(prices1[i], mean1)
             diff2 == SubF(prices2[i], mean2)
         IN  CorrLoopDouble(prices1, prices2, mean1, mean2, i + 1,
                            AddF(cov, MulF(diff1, diff2)),
                            AddF(stdDev1, MulF(diff1, diff1)),
                            AddF(stdDev2, MulF(diff2, diff2)))

\* calculateCorrelation as it runs, on doubles; for series of equal length.
calculateCorrelationDouble(prices1, prices2) ==
    IF Len(prices1) < 2 \/ Len(prices2) < 2 THEN ZeroF
    ELSE LET n == Len(prices1)
             mean1 == DivF(SumDouble(prices1, 1, ZeroF), IntF(n))
             mean2 == DivF(SumDouble(prices2, 1, ZeroF), IntF(n))
             acc == CorrLoopDouble(prices1, prices2, mean1, mean2, 1, ZeroF, ZeroF, ZeroF)
             cov == DivF(acc[1], IntF(n - 1))
             stdDev1 == SqrtF(DivF(acc[2], IntF(n - 1)))
             stdDev2 == SqrtF(DivF(acc[3], IntF(n - 1)))
         IN  IF IsZeroF(stdDev1) \/ IsZeroF(stdDev2) THEN ZeroF
             ELSE DivF(cov, MulF(stdDev1, stdDev2))

----
\* The cache (NodeCache with stdTTL 300, checkperiod 60)

TtlMs == stdTTL * MsPerSecond

\* Variant: an entry outlives its expiry instant by another time-to-live.
ExpiredLate(entry, clock) == entry.t + TtlMs < clock

\* An entry is dead once its expiry instant lies strictly before the clock.
Expired(entry, clock) == entry.t < clock

\* cache.get(key) finds a value: the key is present and its entry is live.
cacheHas(c, key, clock) == key \in DOMAIN c /\ ~Expired(c[key], clock)

\* The data after cache.get(key): an expired entry is deleted by the read.
cacheAfterGet(c, key, clock) ==
    IF key \in DOMAIN c /\ Expired(c[key], clock)
    THEN [k \in DOMAIN c \ {key} |-> c[k]]
    ELSE c

\* The data after cache.set(key, data): the entry is replaced, with a fresh expiry.
\* The field at records the instant of the insertion; the program does not read it.
cacheSet(c, key, data, clock) ==
    [k \in DOMAIN c \cup {key} |->
        IF k = key THEN [v |-> data, t |-> clock + TtlMs, at |-> clock] ELSE c[k]]

\* The data after the periodic check: every expired entry is deleted.
cacheAfterCheck(c, clock) ==
    [k \in {x \in DOMAIN c : ~Expired(c[x], clock)} |-> c[k]]

----
\* fetchStockPriceHistory

\* Variant: the key leaves out the window.
cacheKeyTickerOnly(ticker, minutes) == ticker

\* `${ticker}:${minutes}`
cacheKey(ticker, minutes) == ticker \o <<":">> \o minutes.s

\* Upstream bodies: a JSON array of points, or an object wrapping one point.
ArrayBody(points) == [isArray |-> TRUE, data |-> points]
ObjectBody(point) == [isArray |-> FALSE, stock |-> point]

\* Variant: a body that is not an array is taken as no data at all.
NormalizeObjectAsEmpty(body) == IF body.isArray THEN body.data ELSE <<>>

\* Array.isArray(response.data) ? response.data : [response.data.stock]
Normalize(body) == IF body.isArray THEN body.data ELSE <<body.stock>>

\* `Failed to fetch data for ${ticker}: ${error.message}`
FetchErrorMessage(ticker, cause) ==
    <<"Failed to fetch data for ">> \o ticker \o <<": ">> \o cause

NoTime == -1

\* The call up to its first suspension: a hit returns the cached value (an array,
\* truthy even when empty), a miss issues the upstream GET and waits.
NewCall(c, ticker, minutes, clock) ==
    LET key == cacheKey(ticker, minutes)
        hit == cacheHas(c, key, clock)
    IN  [ticker |-> ticker, minutes |-> minutes, key |-> key,
         st |-> IF hit THEN "hit" ELSE "pending",
         data |-> IF hit THEN c[key].v ELSE <<>>,
         error |-> <<>>,
         startAt |-> clock, storedAt |-> NoTime]

\* The call resumed by a successful response.
CallOk(call, body, clock) ==
    [call EXCEPT !.st = "ok", !.data = Normalize(body), !.storedAt = clock]

\* The call resumed by a failed request.
CallFailed(call, cause) ==
    [call EXCEPT !.st = "failed", !.error = FetchErrorMessage(call.ticker, cause)]

Resolved(call) == call.st \in {"hit", "ok"}
Sent(call) == IF call.st = "hit" THEN 0 ELSE 1

----
\* The handlers' responses

NoBody == [type |-> "none"]
ErrorBody(message) == [type |-> "error", error |-> message]

InvalidAggregationMsg == <<"Invalid aggregation type. Use \"average\".">>
InvalidMinutesMsg == <<"Invalid minutes parameter.">>
TwoTickersMsg == <<"Exactly two tickers are required.">>

AverageBody(priceHistory) ==
    [type |-> "average",
     averageStockPrice |-> calculateAveragePrice(priceHistory),
     priceHistory |-> priceHistory]

StockEntry(history) ==
    [averagePrice |-> calculateAveragePrice(history), priceHistory |-> history]

\* Variant: the averages are taken over the points inside the alignment window.
CorrelationBodyWindowed(ticker1, ticker2, history1, history2, minutes, clock) ==
    LET aligned == alignPriceHistories(history1, history2, minutes, clock)
        startTime == clock - WindowMs(minutes)
        kept1 == filterByTime(history1, startTime, clock)
        kept2 == filterByTime(history2, startTime, clock)
    IN  [type |-> "correlation",
         correlation |-> calculateCorrelation(aligned[1], aligned[2]),
         stocks |-> (ticker2 :> [averagePrice |-> calculateAveragePrice(kept2),
                                 priceHistory |-> history2])
                    @@ (ticker1 :> [averagePrice |-> calculateAveragePrice(kept1),
                                    priceHistory |-> history1])]

\* An object literal with computed keys: a repeated key keeps the later value.
CorrelationBody(ticker1, ticker2, history1, history2, minutes, clock) ==
    LET aligned == alignPriceHistories(history1, history2, minutes, clock)
    IN  [type |-> "correlation",
         correlation |-> calculateCorrelation(aligned[1], aligned[2]),
         stocks |-> (ticker2 :> StockEntry(history2)) @@ (ticker1 :> StockEntry(history1))]

----
\* Inputs of the server

A == <<"A">>
B == <<"B">>
Tickers == {A, B}

Average == Str(<<"a", "v", "e", "r", "a", "g", "e">>)
AggregationParams == {Undefined, Average, Str(<<"s", "u", "m">>)}

MinutesParams ==
    {Undefined, Str(<<>>), Str(<<"x">>), Str(<<"0">>), Str(<<"-", "1">>),
     Str(<<"1">>), Str(<<"5">>)}

TickerParams ==
    {Undefined, Str(A), Arr(<<A>>), Arr(<<A, B>>), Arr(<<B, A>>), Arr(<<A, A>>),
     Arr(<<A, B, A>>)}

\* The requests tried: every minutes value with otherwise valid parameters, and
\* every other parameter value with valid minutes.
AverageInputs ==
    {<<t, m, Average>> : t \in Tickers, m \in MinutesParams}
        \cup {<<A, Str(<<"1">>), a>> : a \in AggregationParams}

CorrelationInputs ==
    {<<m, Arr(<<A, B>>)>> : m \in MinutesParams}
        \cup {<<Str(<<"1">>), t>> : t \in TickerParams}
        \cup {<<Str(<<"x">>), Undefined>>}

MinuteMs == SecPerMinute * MsPerSecond

\* What the feed may answer.
UpstreamBodies ==
    {ArrayBody(<<>>),
     ArrayBody(<<Point(3, At(MinuteMs)), Point(1, At(0))>>),
     ObjectBody(Point(2, At(MinuteMs)))}

Causes == {<<"Request failed with status code 503">>}

CheckMs == checkperiod * MsPerSecond
\* The clock advances by a check period, by the time-to-live, or by both.
TickSteps == {CheckMs, TtlMs, TtlMs + CheckMs}

----
\* The server

Request(kind, ticker, minutes, aggregation, calls, status, body) ==
    [kind |-> kind, ticker |-> ticker, minutes |-> minutes,
     aggregation |-> aggregation, calls |-> calls, status |-> status, body |-> body]

NoResponse == [id |-> 0]
Response(id, r) == [id |-> id, req |-> r]

Settled(r) == \A j \in 1..Len(r.calls) : r.calls[j].st # "pending"

\* The requests in flight after request id has become r: a request stays while
\* one of its calls is pending.
Keep(rs, id, r) ==
    IF Settled(r)
    THEN [k \in DOMAIN rs \ {id} |-> rs[k]]
    ELSE [k \in DOMAIN rs \cup {id} |-> IF k = id THEN r ELSE rs[k]]

\* The response sent last after request id has gone from status 0 to r.
LastAfter(old, id, r) ==
    IF r.status # 0 THEN Response(id, r) ELSE old

Init ==
    /\ now = 0
    /\ ticks = 0
    /\ cache = <<>>
    /\ reqs = <<>>
    /\ received = 0
    /\ last = NoResponse
    /\ h1 = <<>> /\ h2 = <<>> /\ mins = Undefined /\ runs = <<>>
    /\ series1 = <<>> /\ series2 = <<>> /\ coef = <<>>

Reject(r) ==
    /\ received' = received + 1
    /\ last' = Response(received + 1, r)
    /\ UNCHANGED <<now, ticks, cache, reqs, harnessVars>>

\* app.get('/stocks/:ticker'), up to the response or the first suspension
AverageRequest(ticker, minutes, aggregation) ==
    /\ received < MaxRequests
    /\ IF aggregation # Average
       THEN Reject(Request("average", Str(ticker), minutes, aggregation,
                           <<>>, 400, ErrorBody(InvalidAggregationMsg)))
       ELSE IF InvalidMinutes(minutes)
       THEN Reject(Request("average", Str(ticker), minutes, aggregation,
                           <<>>, 400, ErrorBody(InvalidMinutesMsg)))
       ELSE LET call == NewCall(cache, ticker, minutes, now)
                r == IF call.st = "hit"
                     THEN Request("average", Str(ticker), minutes, aggregation,
                                  <<call>>, 200, AverageBody(call.data))
                     ELSE Request("average", Str(ticker), minutes, aggregation,
                                  <<call>>, 0, NoBody)
            IN  /\ received' = received + 1
                /\ cache' = cacheAfterGet(cache, call.key, now)
                /\ reqs' = Keep(reqs, received + 1, r)
                /\ last' = LastAfter(last, received + 1, r)
                /\ UNCHANGED <<now, ticks, harnessVars>>

\* app.get('/stockcorrelation'), up to the response or the first suspension
CorrelationRequest(minutes, ticker) ==
    /\ received < MaxRequests
    /\ IF InvalidMinutes(minutes)
       THEN Reject(Request("correlation", ticker, minutes, Undefined,
                           <<>>, 400, ErrorBody(InvalidMinutesMsg)))
       ELSE IF InvalidTickers(ticker)
       THEN Reject(Request("correlation", ticker, minutes, Undefined,
                           <<>>, 400, ErrorBody(TwoTickersMsg)))
       ELSE LET ticker1 == ticker.a[1]
                ticker2 == ticker.a[2]
                call1 == NewCall(cache, ticker1, minutes, now)
                cache1 == cacheAfterGet(cache, call1.key, now)
                call2 == NewCall(cache1, ticker2, minutes, now)
                cache2 == cacheAfterGet(cache1, call2.key, now)
                r == IF Resolved(call1) /\ Resolved(call2)
                     THEN Request("correlation", ticker, minutes, Undefined,
                                  <<call1, call2>>, 200,
                                  CorrelationBody(ticker1, ticker2, call1.data,
                                                  call2.data, minutes, now))
                     ELSE Request("correlation", ticker, minutes, Undefined,
                                  <<call1, call2>>, 0, NoBody)
            IN  /\ received' = received + 1
                /\ cache' = cache2
                /\ reqs' = Keep(reqs, received + 1, r)
                /\ last' = LastAfter(last, received + 1, r)
                /\ UNCHANGED <<now, ticks, harnessVars>>

\* Variant: the handler waits for every call to settle and answers 200 with
\* whatever data there is.
ResumeAllSettled(r, j, call, clock) ==
    LET calls == [r.calls EXCEPT ![j] = call]
    IN  IF r.status # 0 \/ \E k \in 1..Len(calls) : calls[k].st = "pending"
        THEN [r EXCEPT !.calls = calls]
        ELSE IF r.kind = "average"
        THEN [r EXCEPT !.calls = calls, !.status = 200,
                       !.body = AverageBody(calls[1].data)]
        ELSE [r EXCEPT !.calls = calls, !.status = 200,
                       !.body = CorrelationBody(r.ticker.a[1], r.ticker.a[2],
                                    calls[1].data, calls[2].data, r.minutes, clock)]

\* Variant: the two histories are taken in the order their responses arrived.
ResumeByArrival(r, j, call, clock) ==
    LET calls == [r.calls EXCEPT ![j] = call]
    IN  IF r.status # 0 THEN [r EXCEPT !.calls = calls]
        ELSE IF call.st = "failed"
        THEN [r EXCEPT !.calls = calls, !.status = 500, !.body = ErrorBody(call.error)]
        ELSE IF \E k \in 1..Len(calls) : ~Resolved(calls[k])
        THEN [r EXCEPT !.calls = calls]
        ELSE IF r.kind = "average"
        THEN [r EXCEPT !.calls = calls, !.status = 200,
                       !.body = AverageBody(calls[1].data)]
        ELSE [r EXCEPT !.calls = calls, !.status = 200,
                       !.body = CorrelationBody(r.ticker.a[1], r.ticker.a[2],
                                    calls[3 - j].data, calls[j].data, r.minutes, clock)]

\* Variant: the catch block sends nothing, so a failed fetch leaves the request
\* without a response.
ResumeSwallowsFailure(r, j, call, clock) ==
    LET calls == [r.calls EXCEPT ![j] = call]
    IN  IF r.status # 0 THEN [r EXCEPT !.calls = calls]
        ELSE IF \E k \in 1..Len(calls) : ~Resolved(calls[k])
        THEN [r EXCEPT !.calls = calls]
        ELSE IF r.kind = "average"
        THEN [r EXCEPT !.calls = calls, !.status = 200,
                       !.body = AverageBody(calls[1].data)]
        ELSE [r EXCEPT !.calls = calls, !.status = 200,
                       !.body = CorrelationBody(r.ticker.a[1], r.ticker.a[2],
                                    calls[1].data, calls[2].data, r.minutes, clock)]

\* The request once call j has settled: the awaiting handler resumes when its
\* promise settles (Promise.all: on the first rejection, or once every call has
\* resolved), and answers at most once.
Resume(r, j, call, clock) ==
    LET calls == [r.calls EXCEPT ![j] = call]
    IN  IF r.status # 0 THEN [r EXCEPT !.calls = calls]
        ELSE IF call.st = "failed"
        THEN [r EXCEPT !.calls = calls, !.status = 500, !.body = ErrorBody(call.error)]
        ELSE IF \E k \in 1..Len(calls) : ~Resolved(calls[k])
        THEN [r EXCEPT !.calls = calls]
        ELSE IF r.kind = "average"
        THEN [r EXCEPT !.calls = calls, !.status = 200,
                       !.body = AverageBody(calls[1].data)]
        ELSE [r EXCEPT !.calls = calls, !.status = 200,
                       !.body = CorrelationBody(r.ticker.a[1], r.ticker.a[2],
                                    calls[1].data, calls[2].data, r.minutes, clock)]

Settle(i, j, call) ==
    LET r == Resume(reqs[i], j, call, now)
    IN  /\ reqs' = Keep(reqs, i, r)
        /\ last' = IF reqs[i].status = 0 THEN LastAfter(last, i, r) ELSE last

\* axios.get resolves for call j of request i
UpstreamResponse(i, j, body) ==
    /\ reqs[i].calls[j].st = "pending"
    /\ LET call == CallOk(reqs[i].calls[j], body, now)
       IN  /\ cache' = cacheSet(cache, call.key, call.data, now)
           /\ Settle(i, j, call)
    /\ UNCHANGED <<now, ticks, received, harnessVars>>

\* axios.get rejects for call j of request i
UpstreamFailure(i, j, cause) ==
    /\ reqs[i].calls[j].st = "pending"
    /\ Settle(i, j, CallFailed(reqs[i].calls[j], cause))
    /\ UNCHANGED <<now, ticks, cache, received, harnessVars>>

\* The cache's periodic check.  The clock advances by whole check periods, so a
\* check is due after every advance; one that finds nothing expired changes nothing.
CacheCheck ==
    /\ cacheAfterCheck(cache, now) # cache
    /\ cache' = cacheAfterCheck(cache, now)
    /\ UNCHANGED <<now, ticks, reqs, received, last, harnessVars>>

\* Time passes
Tick(d) ==
    /\ ticks < MaxTicks
    /\ now' = now + d
    /\ ticks' = ticks + 1
    /\ UNCHANGED <<serverVars, harnessVars>>

Next ==
    \/ \E in \in AverageInputs : AverageRequest(in[1], in[2], in[3])
    \/ \E in \in CorrelationInputs : CorrelationRequest(in[1], in[2])
    \/ \E i \in DOMAIN reqs : \E j \in 1..Len(reqs[i].calls) :
          \E body \in UpstreamBodies : UpstreamResponse(i, j, body)
    \/ \E i \in DOMAIN reqs : \E j \in 1..Len(reqs[i].calls) :
          \E cause \in Causes : UpstreamFailure(i, j, cause)
    \/ CacheCheck
    \/ \E d \in TickSteps : Tick(d)

Spec == Init /\ [][Next]_vars

----
\* The alignment harness: alignPriceHistories followed by calculateCorrelation,
\* invoked on fixed histories at the instants the clock passes through.

Slots == {At(k * MinuteMs) : k \in 0..MaxSlot} \cup {InvalidDate}
HarnessPoints == {Point(p, ts) : p \in 1..MaxPrice, ts \in Slots}

Histories ==
    UNION {[1..n -> HarnessPoints] : n \in 0..MaxLen}

HarnessMinutes == {Str(<<"1">>), Str(<<"2">>)}

Run(history1, history2, minutes, clock) ==
    LET aligned == alignPriceHistories(history1, history2, minutes, clock)
    IN  [at |-> clock, aligned |-> aligned,
         correlation |-> calculateCorrelation(aligned[1], aligned[2])]

InitAlign ==
    /\ now = 0
    /\ ticks = 0
    /\ cache = <<>>
    /\ reqs = <<>>
    /\ received = 0
    /\ last = NoResponse
    /\ h1 \in Histories
    /\ h2 \in Histories
    /\ mins \in HarnessMinutes
    /\ runs = <<>>
    /\ series1 = <<>> /\ series2 = <<>> /\ coef = <<>>

\* alignPriceHistories(h1, h2, mins) and calculateCorrelation on its result
Invoke ==
    /\ Len(runs) < MaxRuns
    /\ runs' = Append(runs, Run(h1, h2, mins, now))
    /\ UNCHANGED <<now, ticks, serverVars, h1, h2, mins, series1, series2, coef>>

\* A minute passes
Pass ==
    /\ now < MaxClock * MinuteMs
    /\ now' = now + MinuteMs
    /\ UNCHANGED <<ticks, serverVars, harnessVars>>

NextAlign == Invoke \/ Pass

SpecAlign == InitAlign /\ [][NextAlign]_vars

----
\* The correlation harness: calculateCorrelation invoked on two series of equal
\* length, as alignPriceHistories hands them over, of prices that the feed's JSON
\* writes as decimal fractions.

\* 0.1, 2 and 5 as <<numerator, denominator>>
DecimalPrices == {<<1, 10>>, <<2, 1>>, <<5, 1>>}

PricePairs ==
    UNION {[1..n -> DecimalPrices] \X [1..n -> DecimalPrices] : n \in 0..MaxSeries}

\* The doubles that the prices of a series parse to
Doubles(series) == [i \in 1..Len(series) |-> DecF(series[i][1], series[i][2])]

InitCorr ==
    /\ now = 0
    /\ ticks = 0
    /\ cache = <<>>
    /\ reqs = <<>>
    /\ received = 0
    /\ last = NoResponse
    /\ h1 = <<>> /\ h2 = <<>> /\ mins = Undefined /\ runs = <<>>
    /\ \E pair \in PricePairs : series1 = pair[1] /\ series2 = pair[2]
    /\ coef = <<>>

\* calculateCorrelation(series1, series2)
Correlate ==
    /\ coef = <<>>
    /\ coef' = <<calculateCorrelationDouble(Doubles(series1), Doubles(series2))>>
    /\ UNCHANGED <<now, ticks, serverVars, h1, h2, mins, runs, series1, series2>>

NextCorr == Correlate

SpecCorr == InitCorr /\ [][NextCorr]_vars

----
\* What the properties below read

KnownRequests ==
    {reqs[i] : i \in DOMAIN reqs} \cup (IF last.id # 0 THEN {last.req} ELSE {})

CallsOf(r) == {r.calls[j] : j \in 1..Len(r.calls)}
KnownCalls == UNION {CallsOf(r) : r \in KnownRequests}

\* A step that receives a request, and the request as that step leaves it.
Arrived == received' = received + 1
NewRequest == IF received' \in DOMAIN reqs' THEN reqs'[received'] ELSE last'.req

SameKey(c1, c2) == c1.ticker = c2.ticker /\ c1.minutes = c2.minutes

\* The step sends a response, which last' then holds.
Responds == last' # last

----
\* C1: if a fetch call stored its result and a second call for the same
\* (ticker, minutes) starts less than 300 seconds later, the two calls issue one
\* upstream request between them, and the second returns exactly the sequence the
\* first stored and leaves the entry as it was.
C1_SecondCallReturnsFirstStored ==
    [][Arrived =>
        \A c2 \in CallsOf(NewRequest) : \A c1 \in KnownCalls :
            (c1.st = "ok" /\ SameKey(c1, c2) /\ now - c1.storedAt < TtlMs)
                => /\ c2.st = "hit"
                   /\ Sent(c1) + Sent(c2) = 1
                   /\ c2.data = c1.data
                   /\ c2.key \in DOMAIN cache'
                   /\ cache'[c2.key] = cache[c2.key]]_vars

\* C2 as stated: a call that starts 300 seconds or more after the insertion of the
\* entry for its key is a miss and issues an upstream request.
C2_MissAtOrAfterTtl ==
    [][Arrived =>
        \A c \in CallsOf(NewRequest) :
            (c.key \in DOMAIN cache /\ now - cache[c.key].at >= TtlMs)
                => c.st = "pending"]_vars

\* C2 as amended: a call that starts more than 300 seconds after the insertion of
\* the entry for its key is a miss and issues an upstream request; a hit leaves the
\* entry, its expiry instant included, as it was; and an entry's expiry instant is
\* 300 seconds after its insertion.
C2_MissAfterTtl ==
    [][/\ \A k \in DOMAIN cache' : cache'[k].t = cache'[k].at + stdTTL * MsPerSecond
       /\ Arrived =>
            \A c \in CallsOf(NewRequest) :
                /\ (c.key \in DOMAIN cache /\ now - cache[c.key].at > stdTTL * MsPerSecond)
                       => c.st = "pending" /\ Sent(c) = 1
                /\ c.st = "hit" =>
                       c.key \in DOMAIN cache' /\ cache'[c.key] = cache[c.key]]_vars

\* A call found its key's entry, stored by the request answered before, more than
\* 300 seconds old, and went upstream.
C2_Witness ==
    /\ last.id # 0
    /\ \E i \in DOMAIN reqs : \E c \in CallsOf(reqs[i]) : \E c1 \in CallsOf(last.req) :
          /\ c.st = "pending" /\ c1.st = "ok" /\ SameKey(c1, c)
          /\ c.startAt - c1.storedAt > stdTTL * MsPerSecond
          /\ c.key \notin DOMAIN cache

----
\* C3: a request that fails validation is answered 400, issues no upstream request
\* and leaves the cache unchanged.

\* minutes is present, numeric and greater than 0 (a run of digits, not all "0").
PositiveMinutes(m) ==
    /\ m.type = "string"
    /\ Len(m.s) > 0
    /\ \A i \in 1..Len(m.s) : m.s[i] \in {"0", "1", "2", "3", "4", "5", "6", "7", "8", "9"}
    /\ \E i \in 1..Len(m.s) : m.s[i] # "0"

TickerCount(t) ==
    IF t.type = "undefined" THEN 0 ELSE IF t.type = "string" THEN 1 ELSE Len(t.a)

FailsValidation(r) ==
    IF r.kind = "average"
    THEN r.aggregation # Str(<<"a", "v", "e", "r", "a", "g", "e">>) \/ ~PositiveMinutes(r.minutes)
    ELSE ~PositiveMinutes(r.minutes) \/ TickerCount(r.ticker) # 2

C3_ValidationPrecedesFetch ==
    [][(Arrived /\ FailsValidation(NewRequest)) =>
          /\ last'.id = received'
          /\ last'.req.status = 400
          /\ last'.req.body.type = "error"
          /\ last'.req.calls = <<>>
          /\ reqs' = reqs
          /\ cache' = cache]_vars

\* A correlation request with non-positive minutes was rejected while the cache
\* held an entry and a fetch was in flight.
C3_Witness ==
    /\ last.id # 0
    /\ last.req.kind = "correlation"
    /\ last.req.status = 400
    /\ last.req.minutes = Str(<<"-", "1">>)
    /\ cache # <<>>
    /\ reqs # <<>>

----
\* C4: a correlation request naming the same ticker twice is rejected with 400 and
\* issues no upstream request.
C4_SameTickerRejected ==
    \A r \in KnownRequests :
        (r.kind = "correlation" /\ r.ticker.type = "array" /\ Len(r.ticker.a) = 2
            /\ r.ticker.a[1] = r.ticker.a[2])
            => r.status = 400 /\ r.calls = <<>>

----
\* C5: a correlation request one of whose fetches failed is answered 500 with an
\* error body, whatever became of the other fetch; a 200 is sent only when both
\* fetches succeeded.
C5_NoPartialResults ==
    \A r \in KnownRequests :
        r.kind = "correlation" =>
            /\ (\E c \in CallsOf(r) : c.st = "failed") =>
                   r.status = 500 /\ r.body.type = "error"
            /\ r.status = 200 =>
                   /\ Len(r.calls) = 2
                   /\ \A c \in CallsOf(r) : c.st \in {"hit", "ok"}
                   /\ r.body.type = "correlation"

\* A correlation request was answered 500 after its first fetch had succeeded and
\* its second had failed.
C5_Witness ==
    /\ last.id # 0
    /\ last.req.kind = "correlation"
    /\ last.req.status = 500
    /\ last.req.calls[1].st = "ok"
    /\ last.req.calls[2].st = "failed"

----
\* C6: the correlation handler starts both fetches before consuming either
\* response, answers only after both have settled, and its response does not
\* depend on which upstream response arrived first.

BothStarted(r) ==
    /\ Len(r.calls) = 2
    /\ r.calls[1].startAt = r.calls[2].startAt

\* The 200 body as the received histories, taken by ticker position, determine it.
JoinedByPosition(r, clock) ==
    LET t1 == r.ticker.a[1]
        t2 == r.ticker.a[2]
        d1 == r.calls[1].data
        d2 == r.calls[2].data
        aligned == alignPriceHistories(d1, d2, r.minutes, clock)
    IN  /\ r.body.type = "correlation"
        /\ r.body.correlation = calculateCorrelation(aligned[1], aligned[2])
        /\ DOMAIN r.body.stocks = {t1, t2}
        /\ r.body.stocks[t2] =
               [averagePrice |-> calculateAveragePrice(d2), priceHistory |-> d2]
        /\ t1 # t2 =>
               r.body.stocks[t1] =
                   [averagePrice |-> calculateAveragePrice(d1), priceHistory |-> d1]

\* C6 as stated: every response, 500 included, comes after both fetches settled.
C6_RespondsAfterBothSettled ==
    [][/\ \A r \in KnownRequests' :
            (r.kind = "correlation" /\ r.status # 400) =>
                /\ BothStarted(r)
                /\ r.status # 0 => \A c \in CallsOf(r) : c.st # "pending"
       /\ (Responds /\ last'.req.kind = "correlation" /\ last'.req.status = 200) =>
            JoinedByPosition(last'.req, now)]_vars

\* C6 as amended: both fetches are started together; a 200 is sent only after both
\* have resolved, and is then the same whichever response arrived first; a 500 is
\* sent as soon as one fetch fails, the other possibly still in flight.
C6_JoinedWhenBothResolve ==
    [][/\ \A r \in KnownRequests' :
            (r.kind = "correlation" /\ r.status # 400) =>
                /\ BothStarted(r)
                /\ r.status = 200 => \A c \in CallsOf(r) : c.st \in {"hit", "ok"}
                /\ (\E c \in CallsOf(r) : c.st = "failed") => r.status = 500
       /\ (Responds /\ last'.req.kind = "correlation" /\ last'.req.status = 200) =>
            JoinedByPosition(last'.req, now)]_vars

\* A 200 was sent for two tickers whose upstream responses arrived in the reverse
\* order of the calls, with different histories.
C6_Witness ==
    /\ last.id # 0
    /\ last.req.kind = "correlation"
    /\ last.req.status = 200
    /\ last.req.calls[1].st = "ok"
    /\ last.req.calls[2].st = "ok"
    /\ last.req.calls[2].storedAt < last.req.calls[1].storedAt
    /\ last.req.calls[1].data # last.req.calls[2].data
    /\ last.req.ticker.a[1] # last.req.ticker.a[2]

----
\* The window as the claims state it: startTime <= timestamp <= endTime with
\* endTime the instant of the call and startTime = endTime - minutes.

MinutesOf(m) == CHOOSE n \in 1..9 : Str(<<Digits[n + 1]>>) = m
InWindow(point, clock) ==
    /\ point.lastUpdatedAt.valid
    /\ clock - MinutesOf(mins) * 60 * 1000 <= point.lastUpdatedAt.ms
    /\ point.lastUpdatedAt.ms <= clock

InWindowIndices(history, clock) ==
    {k \in 1..Len(history) : InWindow(history[k], clock)}

\* The index in history of its i-th point inside the window.
NthInWindow(history, clock, i) ==
    CHOOSE k \in InWindowIndices(history, clock) :
        Cardinality({m \in InWindowIndices(history, clock) : m <= k}) = i

Distance(p, q) == Abs(p.lastUpdatedAt.ms - q.lastUpdatedAt.ms)

RunsDone == {runs[i] : i \in 1..Len(runs)}

----
\* C7: the two aligned sequences have equal length: the number of history1 points
\* inside the window if some history2 point is inside it, and zero otherwise.
C7_EqualLengths ==
    \A r \in RunsDone :
        /\ Len(r.aligned[1]) = Len(r.aligned[2])
        /\ Len(r.aligned[1]) =
               IF InWindowIndices(h2, r.at) # {}
               THEN Cardinality(InWindowIndices(h1, r.at))
               ELSE 0

\* One invocation paired two points; a later one, with history1 points still inside
\* the window and no history2 point inside it, paired none.
C7_Witness ==
    \E r1 \in RunsDone, r2 \in RunsDone :
        /\ Len(r1.aligned[1]) = 2
        /\ r2.aligned = <<<<>>, <<>>>>
        /\ InWindowIndices(h1, r2.at) # {}
        /\ h2 # <<>>

----
\* C8: seriesA[i] is the price of the i-th in-window point of history1, and
\* seriesB[i] the price of the first point, in history2's order, among the in-window
\* points of history2 nearest in time to that point.
NearestFirst(point, clock) ==
    CHOOSE j \in InWindowIndices(h2, clock) :
        /\ \A k \in InWindowIndices(h2, clock) :
               Distance(point, h2[j]) <= Distance(point, h2[k])
        /\ \A k \in InWindowIndices(h2, clock) :
               k < j => Distance(point, h2[j]) < Distance(point, h2[k])

C8_NearestFirstMatch ==
    \A r \in RunsDone :
        \A i \in 1..Len(r.aligned[1]) :
            LET a == h1[NthInWindow(h1, r.at, i)]
            IN  /\ r.aligned[1][i] = a.price
                /\ r.aligned[2][i] = h2[NearestFirst(a, r.at)].price

\* Two history1 points were paired with the same history2 point, the first of two
\* equally near ones with different prices, history2 being out of time order.
C8_Witness ==
    \E r \in RunsDone :
        /\ Len(r.aligned[1]) = 2
        /\ Len(h2) = 2
        /\ InWindowIndices(h2, r.at) = {1, 2}
        /\ h2[1].lastUpdatedAt.ms > h2[2].lastUpdatedAt.ms
        /\ h2[1].price # h2[2].price
        /\ \E i \in 1..2 :
              Distance(h1[i], h2[1]) = Distance(h1[i], h2[2])
        /\ r.aligned[2] = <<h2[1].price, h2[1].price>>

----
\* C9: a point of either history takes part in the alignment if and only if
\* startTime <= timestamp <= endTime: the result is that of aligning exactly the
\* in-window points, and no price of an out-of-window point is emitted.
InWindowOnly(history, clock) ==
    SelectSeq(history, LAMBDA point : InWindow(point, clock))

C9_InclusiveWindow ==
    \A r \in RunsDone :
        /\ r.aligned =
               AlignLoop(InWindowOnly(h1, r.at), InWindowOnly(h2, r.at), 1, <<>>, <<>>)
        /\ InWindowIndices(h2, r.at) # {} =>
               r.aligned[1] = Prices(InWindowOnly(h1, r.at))
        /\ \A i \in 1..Len(r.aligned[2]) :
               \E k \in InWindowIndices(h2, r.at) : r.aligned[2][i] = h2[k].price

\* An invocation kept a history1 point dated exactly startTime and a history2 point
\* dated exactly endTime, and dropped a point dated before startTime.
C9_Witness ==
    \E r \in RunsDone :
        /\ Len(r.aligned[1]) = 1
        /\ Len(h1) = 2
        /\ \E k \in InWindowIndices(h1, r.at) :
              h1[k].lastUpdatedAt.ms = r.at - MinutesOf(mins) * 60 * 1000
        /\ \E k \in 1..Len(h1) :
              h1[k].lastUpdatedAt.valid
                  /\ h1[k].lastUpdatedAt.ms < r.at - MinutesOf(mins) * 60 * 1000
        /\ \E k \in InWindowIndices(h2, r.at) : h2[k].lastUpdatedAt.ms = r.at

----
\* C10 as stated: any two invocations on the same histories and minutes yield the
\* same aligned series and the same coefficient, however far apart in time.
C10_SameResultAtAnyTime ==
    \A r1 \in RunsDone, r2 \in RunsDone :
        r1.aligned = r2.aligned /\ r1.correlation = r2.correlation

SameWindowContents(clock1, clock2) ==
    /\ InWindowIndices(h1, clock1) = InWindowIndices(h1, clock2)
    /\ InWindowIndices(h2, clock1) = InWindowIndices(h2, clock2)

\* C10 as amended: two invocations on the same histories and minutes yield the same
\* aligned series and the same coefficient whenever the same points of the two
\* histories lie inside the window at the two instants of invocation.
C10_SameResultInSameWindow ==
    \A r1 \in RunsDone, r2 \in RunsDone :
        SameWindowContents(r1.at, r2.at) =>
            r1.aligned = r2.aligned /\ r1.correlation = r2.correlation

\* Two invocations a minute or more apart, with the same points inside the window,
\* gave the same two pairs and the same non-zero coefficient.
C10_Witness ==
    \E r1 \in RunsDone, r2 \in RunsDone :
        /\ r1.at < r2.at
        /\ SameWindowContents(r1.at, r2.at)
        /\ Len(r1.aligned[1]) = 2
        /\ r1.correlation # CorrZero
        /\ r1.aligned = r2.aligned
        /\ r1.correlation = r2.correlation

----
\* C11: calculateCorrelation returns 0 whenever either series has fewer than 2
\* elements, and 0 whenever either series is constant, whatever the other is.
Constant(series) == \A i \in 1..Len(series) : series[i] = series[1]

C11_DegenerateIsZero ==
    (coef # <<>> /\ (Len(series1) < 2 \/ Len(series2) < 2
                        \/ Constant(series1) \/ Constant(series2)))
        => coef[1] = ZeroF

----
\* C12: a 200 of the average endpoint carries the fetched or cached history
\* unmodified and the arithmetic mean of all its prices (0 when it is empty); a 200
\* of the correlation endpoint carries, for each ticker of the request, a history
\* fetched for that ticker, unmodified, and the mean of all its prices, whichever
\* points the alignment window kept.
RECURSIVE PriceTotal(_)
PriceTotal(history) ==
    IF history = <<>> THEN 0 ELSE history[1].price + PriceTotal(Tail(history))

MeanOfAll(avg, history) ==
    IF history = <<>> THEN avg.num = 0
    ELSE avg.den > 0 /\ avg.num * Len(history) = PriceTotal(history) * avg.den

C12_AveragesOverRawHistory ==
    \A r \in KnownRequests :
        r.status = 200 =>
            IF r.kind = "average"
            THEN /\ r.body.type = "average"
                 /\ r.body.priceHistory = r.calls[1].data
                 /\ MeanOfAll(r.body.averageStockPrice, r.calls[1].data)
            ELSE /\ r.body.type = "correlation"
                 /\ DOMAIN r.body.stocks = {r.ticker.a[1], r.ticker.a[2]}
                 /\ \A t \in DOMAIN r.body.stocks :
                        \E c \in CallsOf(r) :
                            /\ c.ticker = t
                            /\ r.body.stocks[t].priceHistory = c.data
                            /\ MeanOfAll(r.body.stocks[t].averagePrice, c.data)

\* A correlation request was answered 200 with a two-point history whose later
\* point lay outside the window: the coefficient is the degenerate 0 of a single
\* aligned pair, the average is the mean of both points.
C12_Witness ==
    /\ last.id # 0
    /\ last.req.kind = "correlation"
    /\ last.req.status = 200
    /\ last.req.body.correlation = CorrZero
    /\ \E t \in DOMAIN last.req.body.stocks :
          /\ Len(last.req.body.stocks[t].priceHistory) = 2
          /\ last.req.body.stocks[t].averagePrice = [num |-> 2, den |-> 1]
          /\ \E k \in 1..2 : last.req.body.stocks[t].priceHistory[k].lastUpdatedAt.ms > now

----
\* C13: for a series of at least 2 elements that is not constant, the coefficient
\* of the series against itself is 1 in exact arithmetic: positive, and its square
\* cov^2 / (var1 * var2) equal to 1, the three moments sharing the divisor n - 1.
C13_SelfCorrelationIsOne ==
    \A r \in RunsDone :
        (/\ r.aligned[1] = r.aligned[2]
         /\ Len(r.aligned[1]) >= 2
         /\ \E i \in 1..Len(r.aligned[1]) : r.aligned[1][i] # r.aligned[1][1])
            => r.correlation.sign = 1 /\ r.correlation.sq = [num |-> 1, den |-> 1]

\* The harness correlated the series 1, 2 with itself and found 1.
C13_Witness ==
    \E r \in RunsDone :
        /\ r.aligned = <<<<1, 2>>, <<1, 2>>>>
        /\ r.correlation = [sign |-> 1, sq |-> [num |-> 1, den |-> 1]]

----
\* C14: when a fetch call starts while the upstream request of another call for
\* the same (ticker, minutes) is still in flight, of the same request or of an
\* earlier one, the two calls issue one upstream request between them: the later
\* call issues none.
InFlightCalls == UNION {CallsOf(reqs[i]) : i \in DOMAIN reqs}

C14_OverlappingFetchesIssueOne ==
    [][Arrived =>
        /\ \A c2 \in CallsOf(NewRequest) : \A c1 \in InFlightCalls :
               (c1.st = "pending" /\ SameKey(c1, c2)) => Sent(c1) + Sent(c2) = 1
        /\ (Len(NewRequest.calls) = 2
                /\ SameKey(NewRequest.calls[1], NewRequest.calls[2])
                /\ NewRequest.calls[1].st = "pending")
               => Sent(NewRequest.calls[1]) + Sent(NewRequest.calls[2]) = 1]_vars

----
\* C15: a fetch call issues no upstream request on a hit and one on a miss, and
\* never a second one; when its request fails, the call fails with a message that
\* names the ticker and the cause, and the cache is left exactly as it was; and a
\* call for the same (ticker, minutes) that starts after the failure issues a fresh
\* upstream request.

\* Call j of request i as the step leaves it, where the state shows it: while the
\* request is in flight, and in the response that the step sends.
Shown(i) == i \in DOMAIN reqs' \/ (last' # last /\ last'.id = i)
CallAfter(i, j) ==
    IF i \in DOMAIN reqs' THEN reqs'[i].calls[j] ELSE last'.req.calls[j]

NamesTickerAndCause(c) ==
    \E cause \in Causes :
        c.error = <<"Failed to fetch data for ">> \o c.ticker \o <<": ">> \o cause

C15_FailedFetchLeavesNoEntry ==
    [][/\ \A i \in DOMAIN reqs : \A j \in 1..Len(reqs[i].calls) :
            Shown(i) =>
                /\ reqs[i].calls[j].st # "pending" => CallAfter(i, j) = reqs[i].calls[j]
                /\ (reqs[i].calls[j].st = "pending" /\ CallAfter(i, j).st = "failed") =>
                       /\ NamesTickerAndCause(CallAfter(i, j))
                       /\ cache' = cache
       /\ Arrived =>
            \A c2 \in CallsOf(NewRequest) :
                /\ c2.st = "hit" <=>
                       (c2.key \in DOMAIN cache /\ cache[c2.key].t >= now)
                /\ c2.st # "hit" => c2.st = "pending"
                /\ \A c1 \in KnownCalls :
                       (c1.st = "failed" /\ SameKey(c1, c2)) => c2.st = "pending"]_vars

----
\* C16: when the upstream request of a call succeeds, the value stored under the
\* call's key and the value the call returns are both the body itself if the body
\* is a sequence, and the one-element sequence of the wrapped point if the body is
\* an object wrapping a point under stock.
C16_NormalizedStoredAndReturned ==
    [][\A i \in DOMAIN reqs : \A j \in 1..Len(reqs[i].calls) :
          \A body \in UpstreamBodies :
              UpstreamResponse(i, j, body) =>
                  LET key == reqs[i].calls[j].ticker \o <<":">> \o reqs[i].calls[j].minutes.s
                      sequence == IF body.isArray THEN body.data ELSE <<body.stock>>
                  IN  /\ key \in DOMAIN cache'
                      /\ cache'[key].v = sequence
                      /\ Shown(i) =>
                             /\ CallAfter(i, j).st = "ok"
                             /\ CallAfter(i, j).data = sequence
                             /\ CallAfter(i, j).data = cache'[key].v
                      /\ (Responds /\ last'.req.kind = "average") =>
                             /\ last'.req.status = 200
                             /\ last'.req.body.priceHistory = sequence]_vars

\* An average request was answered 200 with the one-element history made of the
\* point that the feed sent wrapped in an object, and the cache holds that history.
C16_Witness ==
    /\ last.id # 0
    /\ last.req.kind = "average"
    /\ last.req.status = 200
    /\ last.req.calls[1].st = "ok"
    /\ Len(last.req.body.priceHistory) = 1
    /\ last.req.calls[1].key \in DOMAIN cache
    /\ cache[last.req.calls[1].key].v = last.req.body.priceHistory
    /\ \E b \in UpstreamBodies : ~b.isArray /\ last.req.body.priceHistory = <<b.stock>>

----
\* C17: every request is answered exactly once provided each upstream request it
\* issued succeeds or fails in the end, whatever becomes of the other requests'
\* upstream requests; and a 400 or 500 leaves the service answering.

\* The upstream request of call j of request i succeeds or fails.
Settles(i, j) ==
    /\ i \in DOMAIN reqs
    /\ j \in 1..Len(reqs[i].calls)
    /\ \/ \E body \in UpstreamBodies : UpstreamResponse(i, j, body)
       \/ \E cause \in Causes : UpstreamFailure(i, j, cause)

\* Request i has been received and not answered yet: it is in flight without a status.
Unanswered(i) == i \in DOMAIN reqs /\ reqs[i].status = 0
Answered(i) == received >= i /\ ~Unanswered(i)

\* The service under a few requests of each kind: one that is fetched for and one
\* that is rejected, per endpoint.
LiveAverageInputs ==
    {<<A, Str(<<"1">>), Average>>, <<A, Str(<<"0">>), Average>>}

LiveCorrelationInputs ==
    {<<Str(<<"1">>), Arr(<<A, B>>)>>, <<Str(<<"1">>), Str(A)>>}

NextLive ==
    \/ \E in \in LiveAverageInputs : AverageRequest(in[1], in[2], in[3])
    \/ \E in \in LiveCorrelationInputs : CorrelationRequest(in[1], in[2])
    \/ \E i \in DOMAIN reqs : \E j \in 1..Len(reqs[i].calls) :
          \E body \in UpstreamBodies : UpstreamResponse(i, j, body)
    \/ \E i \in DOMAIN reqs : \E j \in 1..Len(reqs[i].calls) :
          \E cause \in Causes : UpstreamFailure(i, j, cause)
    \/ CacheCheck
    \/ \E d \in TickSteps : Tick(d)

SpecLive == Init /\ [][NextLive]_vars

\* Safety: a request received is in flight or answered at once; a request leaves
\* flight only answered; a response goes to a request not answered before and has
\* status 200, 400 or 500; and a response once sent is not changed.
\* Liveness: if the upstream requests of request i succeed or fail in the end, then
\* request i, once received, is answered, although no other upstream request need
\* ever resolve.
C17_AnsweredOnce ==
    /\ [][(Arrived =>
              \/ received' \in DOMAIN reqs'
              \/ (last' # last /\ last'.id = received'))
          /\ (\A i \in DOMAIN reqs :
                /\ i \notin DOMAIN reqs' =>
                       \/ reqs[i].status # 0
                       \/ (last' # last /\ last'.id = i)
                /\ (i \in DOMAIN reqs' /\ reqs[i].status # 0) =>
                       /\ reqs'[i].status = reqs[i].status
                       /\ reqs'[i].body = reqs[i].body
                       /\ ~(last' # last /\ last'.id = i))
          /\ (last' # last =>
                /\ last'.req.status \in {200, 400, 500}
                /\ \/ (Arrived /\ last'.id = received')
                   \/ Unanswered(last'.id))]_vars
    /\ \A i \in 1..MaxRequests :
          (\A j \in 1..2 : WF_vars(Settles(i, j))) => ((received >= i) ~> Answered(i))

\* A request was answered 200 after an earlier correlation request had been
\* answered 500, one upstream request of which has still not resolved.
C17_Witness ==
    /\ last.id = 2
    /\ last.req.status = 200
    /\ last.req.calls[1].st = "ok"
    /\ 1 \in DOMAIN reqs
    /\ reqs[1].status = 500
    /\ \E c \in CallsOf(reqs[1]) : c.st = "pending"

----
\* C18: the entry under the key of (ticker, minutes) is the normalized body of a
\* successful upstream request made for that ticker and that minutes value, so that
\* no request is served from the cache a history fetched for another ticker or
\* another window.

\* Tickers and minutes values whose renderings could run into each other: a ticker
\* may hold any character of a path segment, the separator included.
KeyTickers == Tickers \cup {<<"A", ":">>, <<"A", ":", "1">>, <<"A", ":", "1", ":">>}
KeyMinutes ==
    {m \in MinutesParams \cup {Str(<<":", "1">>), Str(<<"1", ":", "5">>), Str(<<"1", ":">>)} :
        ~InvalidMinutes(m)}

\* Key k stands for ticker and minutes, and for no other pair that passes validation.
KeyOnlyOf(k, ticker, minutes) ==
    /\ k = cacheKey(ticker, minutes)
    /\ \A t \in KeyTickers : \A m \in KeyMinutes :
          cacheKey(t, m) = k => (t = ticker /\ m = minutes)

\* Every step that puts or replaces an entry is the success of an upstream request
\* of a validated call, stores that request's normalized body, and stores it under
\* the key that stands for the call's ticker and minutes only; an entry is not
\* altered otherwise; and a call served from the cache is handed the entry under
\* the key that stands for its own ticker and minutes only.
C18_KeyValueCorrespondence ==
    [][(\A k \in DOMAIN cache' :
            (k \notin DOMAIN cache \/ cache'[k] # cache[k]) =>
                \E i \in DOMAIN reqs : \E j \in 1..Len(reqs[i].calls) :
                    \E body \in UpstreamBodies :
                        /\ UpstreamResponse(i, j, body)
                        /\ ~InvalidMinutes(reqs[i].calls[j].minutes)
                        /\ KeyOnlyOf(k, reqs[i].calls[j].ticker, reqs[i].calls[j].minutes)
                        /\ cache'[k].v = (IF body.isArray THEN body.data ELSE <<body.stock>>))
       /\ (Arrived =>
            \A c \in CallsOf(NewRequest) :
                /\ ~InvalidMinutes(c.minutes)
                /\ c.st = "hit" =>
                      /\ KeyOnlyOf(c.key, c.ticker, c.minutes)
                      /\ c.key \in DOMAIN cache
                      /\ c.data = cache[c.key].v)]_vars

\* A request for B over 5 minutes was served from the cache the history stored for
\* B and 5, while the cache holds another history for A and 5.
C18_Witness ==
    /\ last.id = 2
    /\ last.req.status = 200
    /\ last.req.calls[1].st = "hit"
    /\ last.req.calls[1].ticker = B
    /\ last.req.calls[1].minutes = Str(<<"5">>)
    /\ cacheKey(A, Str(<<"5">>)) \in DOMAIN cache
    /\ cacheKey(B, Str(<<"5">>)) \in DOMAIN cache
    /\ cache[cacheKey(A, Str(<<"5">>))].v # cache[cacheKey(B, Str(<<"5">>))].v
    /\ last.req.body.priceHistory = cache[cacheKey(B, Str(<<"5">>))].v

====
